---- MODULE Spec2Model ----
(***************************************************************************)
(* Storage backend resolution of rosbag2_storage                           *)
(* (rosbag2_storage/impl/storage_factory_impl.hpp).                        *)
(*                                                                         *)
(* StorageFactoryImpl holds two pluginlib class loaders, one per storage   *)
(* interface.  open_read_write and open_read_only resolve a request        *)
(* (uri, storage_id) through get_interface_instance, which either commits  *)
(* to the named plugin or walks the declared classes in                    *)
(* detect_and_open_storage.  The plugins and the class loaders are the     *)
(* environment: which classes each loader declares and in which order,     *)
(* whether createUnmanagedInstance throws, which file extension a plugin   *)
(* declares and in which io modes its open succeeds are fixed in Init and  *)
(* never change.  `events' is the history of one call.                     *)
(***************************************************************************)
EXTENDS Integers, Sequences, FiniteSets, TLC

\* How often the same request is issued in a row.
MaxCalls == 2

\* ---------------------------------------------------------------- values

\* The two class loaders of the factory.
Loaders == {"read_only", "read_write"}

\* storage_interfaces::IOFlag
IOFlags == {"READ_ONLY", "READ_WRITE"}

\* Lookup names of the storage plugins that may be registered.
Names == {"A", "B"}

\* StorageOptions::storage_id; "" is the empty string.
StorageIds == {""} \cup Names

\* Strings that matter character by character are sequences of characters.
Uris == { <<"t">>, <<"t", ".", "d", "b">> }

\* What get_file_extension() of a plugin may answer.
Extensions == { <<>>, <<".", "d", "b">> }

\* The null shared_ptr and a plugin instance.
nullptr == [loader |-> "none", class |-> ""]

Instance(loader, class) == [loader |-> loader, class |-> class]

\* ------------------------------------------------------------ environment

RECURSIVE SeqsOver(_, _)
\* The duplicate-free sequences over S of length at most n.
SeqsOver(S, n) ==
  IF n = 0 THEN { <<>> }
  ELSE LET shorter == SeqsOver(S, n - 1)
       IN shorter \cup
          { Append(s, x) : s \in { q \in shorter : Len(q) = n - 1 },
                           x \in S }

Range(s) == { s[i] : i \in 1..Len(s) }

\* getDeclaredClasses(): lookup names are unique within one loader.
Registries ==
  { s \in SeqsOver(Names, Cardinality(Names)) :
      Cardinality(Range(s)) = Len(s) }

\* A plugin as seen through one loader: does createUnmanagedInstance return
\* (create) and for which io flags does open return without throwing (modes).
Behaviours == [create : BOOLEAN, modes : SUBSET IOFlags]

Unregistered == [create |-> FALSE, modes |-> {}]

\* The behaviours that can be told apart: a plugin that cannot be created is
\* never opened, a plugin of the read-only loader is only ever asked for
\* READ_ONLY, and an undeclared class cannot be created.
WellFormedPlugins(d, p) ==
  \A l \in Loaders : \A n \in Names :
    /\ ~p[l][n].create => p[l][n].modes = {}
    /\ l = "read_only" => p[l][n].modes \subseteq {"READ_ONLY"}
    /\ n \notin Range(d[l]) => p[l][n] = Unregistered

VARIABLES
  declared,        \* loader -> its declared classes, in enumeration order
  plugin,          \* loader -> class -> behaviour
  file_extension,  \* class -> what get_file_extension() returns
  op,              \* the factory operation in progress
  uri,             \* storage_options.uri
  storage_id,      \* storage_options.storage_id
  pc,              \* where the call stands
  loader,          \* class loader of the running get_interface_instance
  flag,            \* template argument `flag' of get_interface_instance
  idx,             \* loop position in detect_and_open_storage
  instance,        \* `instance' of open_read_write / open_read_only
  events,          \* history of this call
  call_no,         \* 1 for the first issue of the request, 2 for the repeat
  first_outcome    \* how the first issue of the request ended

vars == << declared, plugin, file_extension, op, uri, storage_id, pc, loader,
           flag, idx, instance, events, call_no, first_outcome >>

env == << declared, plugin, file_extension >>

request == << op, uri, storage_id >>

\* ------------------------------------------------------- pure operators

\* StorageTraits<InterfaceT>::io_flag, the default of the template
\* parameter `flag'.
StorageTraitsIoFlag(l) ==
  IF l = "read_write" THEN "READ_WRITE" ELSE "READ_ONLY"

Max(S) == CHOOSE x \in S : \A y \in S : y <= x

\* rcpputils::fs::path{uri}.extension().string(): the text from the last
\* '.' on, the '.' included; empty when the uri has no '.'.
Extension(u) ==
  LET dots == { i \in 1..Len(u) : u[i] = "." }
  IN IF dots = {} THEN <<>> ELSE SubSeq(u, Max(dots), Len(u))

\* A detect_and_open_storage that never looks at the extension.
UseExtensionNever(f) == FALSE

\* bool use_extension = flag == storage_interfaces::IOFlag::READ_WRITE;
UseExtension(f) == f = "READ_WRITE"

\* A gate that lets every plugin through when the uri has no extension.
ExtensionGateEmptyMatchesAll(f, declared_extension, input_extension) ==
  \/ ~UseExtension(f)
  \/ declared_extension = input_extension
  \/ input_extension = <<>>

\* if (!use_extension || unmanaged_instance->get_file_extension() ==
\*     input_extension)
ExtensionGate(f, declared_extension, input_extension) ==
  ~UseExtension(f) \/ declared_extension = input_extension

\* A detect_and_open_storage that always opens READ_ONLY.
DetectFlagReadOnly(l, f) == "READ_ONLY"

\* The flag detect_and_open_storage runs with.  get_interface_instance calls
\* detect_and_open_storage(class_loader, storage_options) without template
\* arguments: InterfaceT is deduced and `flag' takes its default, whatever
\* flag get_interface_instance itself was instantiated with.
DetectFlag(l, f) == StorageTraitsIoFlag(l)

\* A get_interface_instance that takes every storage id for empty.
StorageIdAlwaysEmpty(id) == TRUE

\* storage_options.storage_id.empty()
StorageIdEmpty(id) == id = ""

\* A lookup that never finds the requested storage id.
ClassExistsNever(classes, id) == FALSE

\* std::find(registered_classes.begin(), registered_classes.end(),
\*           storage_options.storage_id) != registered_classes.end()
ClassExists(classes, id) == \E i \in 1..Len(classes) : classes[i] = id

\* An explicit path that instantiates the first declared class instead of
\* the named one.
NamedClassFirst(classes, id) == classes[1]

\* The class the explicit path instantiates:
\* createUnmanagedInstance(storage_options.storage_id).
NamedClass(classes, id) == id

\* An enumeration whose order changes from one call to the next.
RegisteredClassUnstable(l, i) ==
  IF call_no <= 1 THEN declared[l][i]
  ELSE declared[l][Len(declared[l]) + 1 - i]

\* A loop that looks at the first declared class in every iteration.
RegisteredClassStuck(l, i) == declared[l][1]

\* The i-th element of getDeclaredClasses() of loader l.
RegisteredClass(l, i) == declared[l][i]

\* createUnmanagedInstance(c) returns (TRUE) or throws a
\* pluginlib exception, a std::runtime_error (FALSE).
CanCreate(l, c) == plugin[l][c].create

\* instance->open(storage_options, f) returns (TRUE) or throws
\* std::runtime_error (FALSE).
CanOpen(l, c, f) == f \in plugin[l][c].modes

\* A try block that does not return after a successful open.
OpenResultNever(inst, opened) == nullptr

\* A catch block that hands the instance back although open threw.
OpenResultUnchecked(inst, opened) == inst

\* What the try/catch around open hands back.
OpenResult(inst, opened) == IF opened THEN inst ELSE nullptr

\* ------------------------------------------------------------- history

Event(kind, l, c, f, ok) ==
  [kind |-> kind, loader |-> l, class |-> c, flag |-> f, ok |-> ok]

\* createUnmanagedInstance(c) was called on loader l and returned or threw.
Created(l, c, ok) == Event("create", l, c, "", ok)

\* open(storage_options, f) was called on the instance of c.
Opened(l, c, f, ok) == Event("open", l, c, f, ok)

\* The shared_ptr owning the instance of c went out of scope.
Destroyed(l, c) == Event("destroy", l, c, "", TRUE)

\* get_interface_instance<l, f> returned inst.
Resolved(l, f, inst) == Event("return", l, inst.class, f, inst # nullptr)

\* How a finished call ended.
Outcome == [raised |-> pc = "raised", instance |-> instance]

NoOutcome == [raised |-> FALSE, instance |-> nullptr]

\* ---------------------------------------------------------------- Init

Init ==
  /\ declared \in [Loaders -> Registries]
  /\ plugin \in { p \in [Loaders -> [Names -> Behaviours]] :
                    WellFormedPlugins(declared, p) }
  /\ file_extension \in [Names -> Extensions]
  /\ op = "none"
  /\ uri = <<>>
  /\ storage_id = ""
  /\ pc = "idle"
  /\ loader = "none"
  /\ flag = ""
  /\ idx = 0
  /\ instance = nullptr
  /\ events = <<>>
  /\ call_no = 0
  /\ first_outcome = NoOutcome

\* ------------------------------------------------------------- actions

\* Entry into get_interface_instance<l, f>(class_loader, storage_options).
EnterResolve(l, f) ==
  /\ loader' = l
  /\ flag' = f
  /\ idx' = 1
  /\ pc' = "resolve"

\* open_read_write(storage_options), up to its call of
\* get_interface_instance(read_write_class_loader_, storage_options).
StartReadWrite ==
  /\ instance' = nullptr
  /\ events' = <<>>
  /\ EnterResolve("read_write", StorageTraitsIoFlag("read_write"))

\* open_read_only(storage_options), up to its call of
\* get_interface_instance(read_only_class_loader_, storage_options).
StartReadOnly ==
  /\ instance' = nullptr
  /\ events' = <<>>
  /\ EnterResolve("read_only", StorageTraitsIoFlag("read_only"))

open_read_write(u, id) ==
  /\ pc = "idle"
  /\ op' = "open_read_write"
  /\ uri' = u
  /\ storage_id' = id
  /\ call_no' = 1
  /\ StartReadWrite
  /\ UNCHANGED << env, first_outcome >>

open_read_only(u, id) ==
  /\ pc = "idle"
  /\ op' = "open_read_only"
  /\ uri' = u
  /\ storage_id' = id
  /\ call_no' = 1
  /\ StartReadOnly
  /\ UNCHANGED << env, first_outcome >>

\* get_interface_instance with a non-empty storage_id: the class must be
\* declared, is instantiated and opened; every failure gives nullptr.
GetInterfaceInstanceExplicit ==
  /\ pc = "resolve"
  /\ ~StorageIdEmpty(storage_id)
  /\ LET classes == declared[loader]
         c == NamedClass(classes, storage_id)
         inst == Instance(loader, c)
         opened == CanOpen(loader, c, flag)
         result ==
           IF ~ClassExists(classes, storage_id) THEN nullptr
           ELSE IF ~CanCreate(loader, c) THEN nullptr
           ELSE OpenResult(inst, opened)
         log ==
           IF ~ClassExists(classes, storage_id) THEN <<>>
           ELSE IF ~CanCreate(loader, c) THEN << Created(loader, c, FALSE) >>
           ELSE << Created(loader, c, TRUE), Opened(loader, c, flag, opened) >>
                \o (IF result = inst THEN <<>> ELSE << Destroyed(loader, c) >>)
     IN /\ instance' = result
        /\ events' = events \o log \o << Resolved(loader, flag, result) >>
  /\ pc' = "resolved"
  /\ UNCHANGED << env, request, loader, flag, idx, call_no, first_outcome >>

\* One iteration of the loop of detect_and_open_storage.
DetectAndOpenStorageStep ==
  /\ pc = "resolve"
  /\ StorageIdEmpty(storage_id)
  /\ idx <= Len(declared[loader])
  /\ LET f == DetectFlag(loader, flag)
         c == RegisteredClass(loader, idx)
         inst == Instance(loader, c)
         opened == CanOpen(loader, c, f)
         result == OpenResult(inst, opened)
     IN IF ~CanCreate(loader, c)
        THEN \* createUnmanagedInstance throws outside every try block
             /\ events' = Append(events, Created(loader, c, FALSE))
             /\ pc' = "raised"
             /\ UNCHANGED << idx, instance >>
        ELSE IF ~ExtensionGate(f, file_extension[c], Extension(uri))
        THEN \* skipped; the unmanaged instance is dropped
             /\ events' = Append(events, Created(loader, c, TRUE))
             /\ idx' = idx + 1
             /\ UNCHANGED << pc, instance >>
        ELSE IF result # nullptr
        THEN \* return instance;
             /\ events' = events \o << Created(loader, c, TRUE),
                                       Opened(loader, c, f, opened),
                                       Resolved(loader, flag, result) >>
             /\ instance' = result
             /\ pc' = "resolved"
             /\ UNCHANGED idx
        ELSE \* open threw: continue
             /\ events' = events \o << Created(loader, c, TRUE),
                                       Opened(loader, c, f, opened),
                                       Destroyed(loader, c) >>
             /\ idx' = idx + 1
             /\ UNCHANGED << pc, instance >>
  /\ UNCHANGED << env, request, loader, flag, call_no, first_outcome >>

\* The loop of detect_and_open_storage is over: return nullptr.
DetectAndOpenStorageExhausted ==
  /\ pc = "resolve"
  /\ StorageIdEmpty(storage_id)
  /\ idx > Len(declared[loader])
  /\ instance' = nullptr
  /\ events' = Append(events, Resolved(loader, flag, nullptr))
  /\ pc' = "resolved"
  /\ UNCHANGED << env, request, loader, flag, idx, call_no, first_outcome >>

\* An open_read_only that goes on to the read-write loader whatever the
\* read-only loader returned.
NeedsFallbackAlways ==
  /\ op = "open_read_only"
  /\ loader = "read_only"

\* open_read_only: if (instance == nullptr) after the read-only loader.
NeedsFallback ==
  /\ op = "open_read_only"
  /\ loader = "read_only"
  /\ instance = nullptr

\* A fallback that leaves the flag of get_interface_instance at its default.
FallbackDefaultFlag ==
  /\ pc = "resolved"
  /\ NeedsFallback
  /\ EnterResolve("read_write", StorageTraitsIoFlag("read_write"))
  /\ UNCHANGED << env, request, instance, events, call_no, first_outcome >>

\* instance = get_interface_instance<ReadWriteInterface,
\*   storage_interfaces::IOFlag::READ_ONLY>(read_write_class_loader_, ...)
Fallback ==
  /\ pc = "resolved"
  /\ NeedsFallback
  /\ EnterResolve("read_write", "READ_ONLY")
  /\ UNCHANGED << env, request, instance, events, call_no, first_outcome >>

\* return instance;
Return ==
  /\ pc = "resolved"
  /\ ~NeedsFallback
  /\ pc' = "done"
  /\ UNCHANGED << env, request, loader, flag, idx, instance, events,
                  call_no, first_outcome >>

\* The caller issues the same request again: same factory, same plugins,
\* same target.
Repeat ==
  /\ pc \in {"done", "raised"}
  /\ call_no < MaxCalls
  /\ call_no' = call_no + 1
  /\ first_outcome' = IF call_no = 1 THEN Outcome ELSE first_outcome
  /\ IF op = "open_read_write" THEN StartReadWrite ELSE StartReadOnly
  /\ UNCHANGED << env, request >>

Next ==
  \/ \E u \in Uris, id \in StorageIds : open_read_write(u, id)
  \/ \E u \in Uris, id \in StorageIds : open_read_only(u, id)
  \/ GetInterfaceInstanceExplicit
  \/ DetectAndOpenStorageStep
  \/ DetectAndOpenStorageExhausted
  \/ Fallback
  \/ Return
  \/ Repeat

Spec == Init /\ [][Next]_vars

\* The steps the running call takes by itself.
CallStep ==
  \/ GetInterfaceInstanceExplicit
  \/ DetectAndOpenStorageStep
  \/ DetectAndOpenStorageExhausted
  \/ Fallback
  \/ Return

\* One call on a fresh factory: the factory keeps nothing from one call to
\* the next, so how a call runs does not depend on the calls before it.
SingleCall ==
  \/ \E u \in Uris, id \in StorageIds : open_read_write(u, id)
  \/ \E u \in Uris, id \in StorageIds : open_read_only(u, id)
  \/ CallStep

\* A call, once entered, runs on: it is synchronous code and createUnmanaged-
\* Instance and open are taken to return or throw.  Whether the caller issues
\* a call at all is left open.
FairSpec == Init /\ [][SingleCall]_vars /\ WF_vars(CallStep)

\* ---------------------------------------------------------------- types

TypeOK ==
  /\ declared \in [Loaders -> Registries]
  /\ op \in {"none", "open_read_write", "open_read_only"}
  /\ pc \in {"idle", "resolve", "resolved", "done", "raised"}
  /\ loader \in Loaders \cup {"none"}
  /\ flag \in IOFlags \cup {""}
  /\ storage_id \in StorageIds
  /\ call_no \in 0..MaxCalls
  /\ instance \in {nullptr} \cup { Instance(l, c) : l \in Loaders, c \in Names }

\* ------------------------------------------------------ history queries

\* The call of open_read_write / open_read_only is over.
Finished == pc \in {"done", "raised"}

\* The open calls made on plugins of loader l so far, in order.
OpensOn(l) ==
  SelectSeq(events, LAMBDA e : e.kind = "open" /\ e.loader = l)

\* The createUnmanagedInstance calls made on loader l so far, in order.
CreatesOn(l) ==
  SelectSeq(events, LAMBDA e : e.kind = "create" /\ e.loader = l)

\* The returns of get_interface_instance so far, in order.
Returns == SelectSeq(events, LAMBDA e : e.kind = "return")

AllOpens == SelectSeq(events, LAMBDA e : e.kind = "open")

\* get_interface_instance on loader l has returned in this call.
HasReturned(l) == \E i \in 1..Len(Returns) : Returns[i].loader = l

\* ... and it returned nullptr.
ReturnedNull(l) ==
  \E i \in 1..Len(Returns) : Returns[i].loader = l /\ ~Returns[i].ok

\* The pass of this call over the read-only loader is over.
ReadOnlyPassOver == Finished \/ loader = "read_write"

\* Resolution against loader l as the design describes it for the read-only
\* capability: the named class, or else any declared class, can be
\* instantiated and opens with READ_ONLY.
WouldResolveReadOnly(l) ==
  IF storage_id # ""
  THEN /\ storage_id \in Range(declared[l])
       /\ plugin[l][storage_id].create
       /\ "READ_ONLY" \in plugin[l][storage_id].modes
  ELSE \E c \in Range(declared[l]) :
         plugin[l][c].create /\ "READ_ONLY" \in plugin[l][c].modes

\* ----------------------------------------------------------------- C1

\* C1 (fallback law): when open_read_only returns, it returns an instance
\* whenever resolution against the read-only loader, or against the
\* read-write loader with plugins opened READ_ONLY, would succeed, and it
\* returns nullptr only when both would fail.
C1_FallbackLaw ==
  (pc = "done" /\ op = "open_read_only") =>
    ( (WouldResolveReadOnly("read_only") \/ WouldResolveReadOnly("read_write"))
        => instance # nullptr )

\* ----------------------------------------------------------------- C2

\* C2: during open_read_only every open, on a plugin of either loader, on
\* the explicit path or in auto-detect, is called with READ_ONLY.
C2_OnlyReadOnlyOpens ==
  op = "open_read_only" =>
    \A i \in 1..Len(AllOpens) : AllOpens[i].flag = "READ_ONLY"

\* ----------------------------------------------------------------- C3

\* C3: the instance held for the caller is one whose open returned
\* successfully in this same call; an instance that was not opened, or whose
\* open threw, is never handed out.
C3_ReturnedInstanceWasOpened ==
  instance # nullptr =>
    /\ Len(AllOpens) >= 1
    /\ LET last == AllOpens[Len(AllOpens)]
       IN /\ last.ok
          /\ Instance(last.loader, last.class) = instance
    /\ \E i \in 1..Len(events) :
         /\ events[i].kind = "create"
         /\ events[i].ok
         /\ Instance(events[i].loader, events[i].class) = instance

\* A call that returned an instance after another plugin's open had failed.
C3_Witness ==
  /\ pc = "done"
  /\ instance # nullptr
  /\ \E i \in 1..Len(AllOpens) : ~AllOpens[i].ok

\* ----------------------------------------------------------------- C4

\* C4: open_read_write and open_read_only never raise; every failure is
\* surfaced as nullptr.
C4_NeverRaises == pc # "raised"

\* ----------------------------------------------------------------- C5

ReadWriteAutoDetect == op = "open_read_write" /\ storage_id = ""

\* C5 as stated: in read-write auto-detect only plugins whose declared
\* extension equals the extension of the uri are instantiated or opened.
C5_OnlyMatchingInstantiated ==
  ReadWriteAutoDetect =>
    \A i \in 1..Len(events) :
      events[i].kind \in {"create", "open"} =>
        file_extension[events[i].class] = Extension(uri)

\* C5 amended: in read-write auto-detect only plugins whose declared
\* extension equals the extension of the uri are opened; a plugin with
\* another extension is instantiated, to be asked for its extension, but it
\* is never opened.
C5_OnlyMatchingOpened ==
  ReadWriteAutoDetect =>
    /\ \A i \in 1..Len(AllOpens) :
         /\ AllOpens[i].loader = "read_write"
         /\ file_extension[AllOpens[i].class] = Extension(uri)
    /\ Finished =>
         \A c \in Range(declared["read_write"]) :
           (file_extension[c] # Extension(uri)) =>
             ~\E i \in 1..Len(AllOpens) : AllOpens[i].class = c

\* A finished read-write auto-detect call that instantiated a plugin with
\* another extension and opened a plugin with the extension of the uri.
C5_Witness ==
  /\ ReadWriteAutoDetect
  /\ pc = "done"
  /\ \E i \in 1..Len(events) :
       /\ events[i].kind = "create"
       /\ events[i].ok
       /\ file_extension[events[i].class] # Extension(uri)
  /\ Len(AllOpens) >= 1

\* ----------------------------------------------------------------- C6

\* C6: in read-only auto-detect against the read-only loader the declared
\* classes are opened one after another in enumeration order, whatever their
\* extension, until one open succeeds; a class is left out only if an
\* earlier one opened successfully.
C6_ReadOnlyTriesAllInOrder ==
  (op = "open_read_only" /\ storage_id = "" /\ ReadOnlyPassOver) =>
    LET o == OpensOn("read_only")
        d == declared["read_only"]
    IN /\ Len(o) <= Len(d)
       /\ \A i \in 1..Len(o) : o[i].class = d[i]
       /\ \A i \in 1..(Len(o) - 1) : ~o[i].ok
       /\ Len(o) < Len(d) => (Len(o) >= 1 /\ o[Len(o)].ok)

\* ----------------------------------------------------------------- C7

\* C7: when a non-empty storage id is not among the declared classes of a
\* loader, get_interface_instance on that loader returns nullptr and no open
\* is called on any plugin of that loader.
C7_UnknownIdNoOpen ==
  \A l \in Loaders :
    (storage_id # "" /\ storage_id \notin Range(declared[l])) =>
      /\ Len(OpensOn(l)) = 0
      /\ \A i \in 1..Len(Returns) : Returns[i].loader = l => ~Returns[i].ok

\* open_read_only finished for an id that the read-only loader does not
\* declare although it declares another class, and that the read-write
\* loader declares.
C7_Witness ==
  /\ pc = "done"
  /\ op = "open_read_only"
  /\ storage_id # ""
  /\ storage_id \notin Range(declared["read_only"])
  /\ declared["read_only"] # <<>>
  /\ storage_id \in Range(declared["read_write"])
  /\ ReturnedNull("read_only")

\* ----------------------------------------------------------------- C8

\* C8 as stated: when a non-empty storage id is among the declared classes
\* of a loader, a resolution on that loader calls open exactly once, on the
\* named plugin.
C8_ExactlyOneOpen ==
  \A l \in Loaders :
    (storage_id # "" /\ storage_id \in Range(declared[l]) /\ HasReturned(l)) =>
      /\ Len(OpensOn(l)) = 1
      /\ OpensOn(l)[1].class = storage_id

\* C8 amended: when a non-empty storage id is among the declared classes of
\* a loader, a resolution on that loader calls open at most once and only on
\* the named plugin, whatever else is registered: exactly once when the
\* named plugin could be instantiated and not at all when its instantiation
\* failed.
C8_AtMostOneOpenOnNamed ==
  \A l \in Loaders :
    (storage_id # "" /\ storage_id \in Range(declared[l])) =>
      /\ Len(OpensOn(l)) <= 1
      /\ \A i \in 1..Len(OpensOn(l)) : OpensOn(l)[i].class = storage_id
      /\ \A i \in 1..Len(CreatesOn(l)) : CreatesOn(l)[i].class = storage_id
      /\ HasReturned(l) =>
           (Len(OpensOn(l)) = 1 <=> plugin[l][storage_id].create)

\* A resolution by id on a loader that declares two classes, the named one
\* not the first, opened the named plugin.
C8_Witness ==
  \E l \in Loaders :
    /\ storage_id # ""
    /\ Len(declared[l]) = 2
    /\ declared[l][2] = storage_id
    /\ HasReturned(l)
    /\ Len(OpensOn(l)) = 1

\* ----------------------------------------------------------------- C9

\* The first declared class of the read-write loader that opens READ_ONLY
\* when every class before it can be instantiated and fails to open.
FirstReadOnlyOpenable(i) ==
  LET d == declared["read_write"]
  IN /\ i \in 1..Len(d)
     /\ plugin["read_write"][d[i]].create
     /\ "READ_ONLY" \in plugin["read_write"][d[i]].modes
     /\ \A j \in 1..(i - 1) :
          /\ plugin["read_write"][d[j]].create
          /\ "READ_ONLY" \notin plugin["read_write"][d[j]].modes

\* C9: in an auto-detect open_read_only call whose read-only pass gave no
\* instance, the pass over the read-write loader applies no extension
\* gating: a class whose extension differs from that of the uri is still
\* attempted, and when it opens READ_ONLY it is what open_read_only returns.
C9_FallbackNoGating ==
  (pc = "done" /\ op = "open_read_only" /\ storage_id = ""
     /\ ReturnedNull("read_only")) =>
    \A i \in 1..Len(declared["read_write"]) :
      LET c == declared["read_write"][i]
      IN (FirstReadOnlyOpenable(i) /\ file_extension[c] # Extension(uri)) =>
           /\ \E k \in 1..Len(AllOpens) :
                AllOpens[k].loader = "read_write" /\ AllOpens[k].class = c
           /\ instance = Instance("read_write", c)

\* ---------------------------------------------------------------- C10

C11_FirstSuccessWins ==
  /\ \A i \in 1..Len(events) :
       (events[i].kind = "open" /\ events[i].ok) =>
         /\ \A j \in (i + 1)..Len(events) :
              events[j].kind \notin {"create", "open"}
         /\ i < Len(events) =>
              /\ events[i + 1].kind = "return"
              /\ events[i + 1].ok
              /\ events[i + 1].class = events[i].class
              /\ instance = Instance(events[i].loader, events[i].class)
  /\ Cardinality({ i \in 1..Len(Returns) : Returns[i].ok }) <= 1

\* An auto-detect call returned the first of two declared classes although
\* the second could have been instantiated as well.
C11_Witness ==
  /\ pc = "done"
  /\ storage_id = ""
  /\ instance # nullptr
  /\ Len(declared[instance.loader]) = 2
  /\ declared[instance.loader][1] = instance.class
  /\ plugin[instance.loader][declared[instance.loader][2]].create

\* ---------------------------------------------------------------- C12

\* A read-write request that names a declared class whose extension is not
\* the extension of the uri.
ExplicitMismatch ==
  /\ op = "open_read_write"
  /\ storage_id # ""
  /\ storage_id \in Range(declared["read_write"])
  /\ file_extension[storage_id] # Extension(uri)

\* C12: an explicit storage id bypasses extension gating and commits to the
\* named plugin: it is the only one instantiated or opened although its
\* extension does not match, it is returned when it can be instantiated and
\* opens, and when its instantiation or open fails the result is nullptr and
\* nothing else was tried.
C12_ExplicitIdCommits ==
  ExplicitMismatch =>
    /\ \A i \in 1..Len(events) :
         events[i].kind \in {"create", "open"} =>
           events[i].loader = "read_write" /\ events[i].class = storage_id
    /\ Finished =>
         /\ pc = "done"
         /\ Len(CreatesOn("read_write")) = 1
         /\ Len(OpensOn("read_write")) =
              (IF plugin["read_write"][storage_id].create THEN 1 ELSE 0)
         /\ instance =
              (IF /\ plugin["read_write"][storage_id].create
                  /\ \E i \in 1..Len(AllOpens) : AllOpens[i].ok
               THEN Instance("read_write", storage_id)
               ELSE nullptr)

\* The named plugin, second of two declared classes, was opened against a
\* uri with another extension and its open failed, while the first declared
\* class has the extension of the uri and would have opened.
C12_Witness ==
  /\ ExplicitMismatch
  /\ pc = "done"
  /\ instance = nullptr
  /\ Len(OpensOn("read_write")) = 1
  /\ Len(declared["read_write"]) = 2
  /\ declared["read_write"][2] = storage_id
  /\ LET other == declared["read_write"][1]
     IN /\ file_extension[other] = Extension(uri)
        /\ plugin["read_write"][other].create
        /\ "READ_WRITE" \in plugin["read_write"][other].modes

\* ---------------------------------------------------------------- C13

\* C13: in auto-detect a class whose instantiation fails is not fatal: the
\* resolver goes on to the next declared class, and a later class that
\* passes the gate and opens is still returned.
C13_InstantiationFailureNotFatal ==
  (Finished /\ storage_id = "") =>
    /\ \A l \in Loaders : \A k \in 1..Len(CreatesOn(l)) :
         (~CreatesOn(l)[k].ok /\ k < Len(declared[l])) =>
           Len(CreatesOn(l)) > k
    /\ op = "open_read_write" =>
         LET d == declared["read_write"]
         IN (\E i \in 1..Len(d) : \E j \in (i + 1)..Len(d) :
               /\ ~plugin["read_write"][d[i]].create
               /\ plugin["read_write"][d[j]].create
               /\ file_extension[d[j]] = Extension(uri)
               /\ "READ_WRITE" \in plugin["read_write"][d[j]].modes)
            => instance # nullptr

\* ---------------------------------------------------------------- C14

\* The first declared class of the read-write loader, in enumeration order,
\* that declares the extension of the uri and opens READ_WRITE; nullptr when
\* there is none.
FirstMatchingOpenable ==
  LET d == declared["read_write"]
      good == { i \in 1..Len(d) :
                  /\ plugin["read_write"][d[i]].create
                  /\ file_extension[d[i]] = Extension(uri)
                  /\ "READ_WRITE" \in plugin["read_write"][d[i]].modes }
  IN IF good = {} THEN nullptr
     ELSE Instance("read_write", d[CHOOSE i \in good : \A j \in good : i <= j])

\* C14: the result of a read-write auto-detect call is the first declared
\* class, in enumeration order, whose extension equals the extension of the
\* uri and whose open succeeds, and nullptr when there is none; open is
\* called on classes with the extension of the uri only.
C14_FirstMatchingWins ==
  (Finished /\ ReadWriteAutoDetect) =>
    /\ instance = FirstMatchingOpenable
    /\ \A i \in 1..Len(AllOpens) :
         file_extension[AllOpens[i].class] = Extension(uri)

\* ---------------------------------------------------------------- C15

\* C15: open_read_write has no fallback: it never enumerates, instantiates
\* or opens a class of the read-only loader, every open it makes uses
\* READ_WRITE, get_interface_instance runs once, and what it returns, nullptr
\* included, is what the caller receives.
C15_ReadWriteNoFallback ==
  op = "open_read_write" =>
    /\ loader = "read_write"
    /\ \A i \in 1..Len(events) : events[i].loader = "read_write"
    /\ \A i \in 1..Len(AllOpens) : AllOpens[i].flag = "READ_WRITE"
    /\ Len(Returns) <= 1
    /\ pc = "done" =>
         /\ Len(Returns) = 1
         /\ Returns[1].ok <=> instance # nullptr
         /\ ~Returns[1].ok =>
              \A i \in 1..Len(AllOpens) : ~AllOpens[i].ok

\* open_read_write returned nullptr after a failed open although the
\* read-only loader declares a class that opens.
C15_Witness ==
  /\ op = "open_read_write"
  /\ pc = "done"
  /\ instance = nullptr
  /\ Len(AllOpens) >= 1
  /\ \E c \in Range(declared["read_only"]) :
       plugin["read_only"][c].create /\ plugin["read_only"][c].modes # {}

\* ---------------------------------------------------------------- C16

\* C16: in open_read_only the read-write loader is consulted only after
\* get_interface_instance on the read-only loader has returned nullptr: every
\* event on the read-write loader comes after that return, and when the
\* read-only loader gave an instance nothing of the read-write loader is
\* instantiated or opened and that instance is returned.
C16_FallbackOnlyAfterReadOnly ==
  op = "open_read_only" =>
    /\ \A i \in 1..Len(events) :
         events[i].loader = "read_write" =>
           \E j \in 1..(i - 1) :
             /\ events[j].kind = "return"
             /\ events[j].loader = "read_only"
             /\ ~events[j].ok
    /\ \A j \in 1..Len(events) :
         (events[j].kind = "return" /\ events[j].loader = "read_only"
            /\ events[j].ok) =>
           /\ \A i \in 1..Len(events) : events[i].loader = "read_only"
           /\ instance = Instance("read_only", events[j].class)
    /\ loader = "read_write" => ReturnedNull("read_only")

\* open_read_only finished: the read-only loader opened a plugin without
\* success, returned nullptr, and a plugin of the read-write loader was
\* opened afterwards.
C16_Witness ==
  /\ op = "open_read_only"
  /\ pc = "done"
  /\ Len(OpensOn("read_only")) >= 1
  /\ Len(OpensOn("read_write")) >= 1

\* ---------------------------------------------------------------- C17

\* The uri holds no '.', so it has no extension.
NoExtension == \A i \in 1..Len(uri) : uri[i] # "."

\* C17 as stated: for a read-write auto-detect request whose uri has no
\* extension no plugin is opened and the result is nullptr, whatever
\* extensions, the empty one included, the declared classes have.
C17_NoExtensionMatchesNothing ==
  (ReadWriteAutoDetect /\ NoExtension) =>
    /\ Len(AllOpens) = 0
    /\ instance = nullptr

\* C17 amended: a uri without extension yields the empty extension, which
\* matches exactly the plugins that declare the empty extension: only those
\* are opened, and when no declared class has the empty extension no plugin
\* is opened and no instance is returned.
C17_NoExtensionMatchesOnlyEmpty ==
  (ReadWriteAutoDetect /\ NoExtension) =>
    /\ Extension(uri) = <<>>
    /\ \A i \in 1..Len(AllOpens) : file_extension[AllOpens[i].class] = <<>>
    /\ (\A c \in Range(declared["read_write"]) : file_extension[c] # <<>>) =>
         /\ Len(AllOpens) = 0
         /\ instance = nullptr

\* A read-write auto-detect call on a uri without extension finished without
\* an open although a declared class with a non-empty extension could have
\* been opened.
C17_Witness ==
  /\ ReadWriteAutoDetect
  /\ NoExtension
  /\ pc = "done"
  /\ Len(AllOpens) = 0
  /\ \E c \in Range(declared["read_write"]) :
       /\ file_extension[c] # <<>>
       /\ "READ_WRITE" \in plugin["read_write"][c].modes

\* ---------------------------------------------------------------- C18

\* C18: when the call is over, every plugin instance that was instantiated
\* during it is the instance handed to the caller or has been destroyed,
\* the instances skipped by the extension gate and those whose open failed
\* included.
C18_NoInstanceLeaked ==
  Finished =>
    \A i \in 1..Len(events) :
      (events[i].kind = "create" /\ events[i].ok) =>
        \/ instance = Instance(events[i].loader, events[i].class)
        \/ \E j \in (i + 1)..Len(events) :
             /\ events[j].kind = "destroy"
             /\ events[j].loader = events[i].loader
             /\ events[j].class = events[i].class

\* ---------------------------------------------------------------- C19

\* C19: in open_read_only with a non-empty storage id the fallback resolves
\* the same id against the read-write loader: when the read-only loader gave
\* nullptr and the read-write loader declares the id, that plugin is
\* instantiated, opened with READ_ONLY and returned when its open succeeds;
\* the call opens at most twice, at most once per loader, and only plugins
\* named by the id.
C19_ExplicitFallbackSameId ==
  (op = "open_read_only" /\ storage_id # "") =>
    /\ Len(AllOpens) <= 2
    /\ \A l \in Loaders : Len(OpensOn(l)) <= 1
    /\ \A i \in 1..Len(events) :
         events[i].kind \in {"create", "open"} => events[i].class = storage_id
    /\ \A i \in 1..Len(OpensOn("read_write")) :
         OpensOn("read_write")[i].flag = "READ_ONLY"
    /\ (pc = "done" /\ ReturnedNull("read_only")
          /\ storage_id \in Range(declared["read_write"])) =>
         /\ Len(CreatesOn("read_write")) = 1
         /\ plugin["read_write"][storage_id].create =>
              /\ Len(OpensOn("read_write")) = 1
              /\ OpensOn("read_write")[1].ok <=>
                   "READ_ONLY" \in plugin["read_write"][storage_id].modes
         /\ instance =
              (IF /\ plugin["read_write"][storage_id].create
                  /\ "READ_ONLY" \in plugin["read_write"][storage_id].modes
               THEN Instance("read_write", storage_id)
               ELSE nullptr)

\* open_read_only by id opened the named plugin of the read-only loader
\* without success and then returned the plugin of the same name of the
\* read-write loader, which opens READ_ONLY but not READ_WRITE.
C19_Witness ==
  /\ op = "open_read_only"
  /\ storage_id # ""
  /\ pc = "done"
  /\ Len(AllOpens) = 2
  /\ instance = Instance("read_write", storage_id)
  /\ plugin["read_write"][storage_id].modes = {"READ_ONLY"}

\* ---------------------------------------------------------------- C20

\* The call is inside open_read_write / open_read_only.
InCall == pc \in {"resolve", "resolved"}

\* The classes of a sequence of events are pairwise different.
DistinctClasses(s) ==
  \A i \in 1..Len(s) : \A j \in 1..Len(s) : s[i].class = s[j].class => i = j

\* Within one pass over a loader each declared class is instantiated at most
\* once and opened at most once; open_read_write opens at most as many
\* plugins as the read-write loader declares, open_read_only at most as many
\* as both loaders declare.
C20_Bounds ==
  /\ \A l \in Loaders :
       /\ DistinctClasses(CreatesOn(l))
       /\ DistinctClasses(OpensOn(l))
       /\ Len(OpensOn(l)) <= Len(CreatesOn(l))
       /\ Len(CreatesOn(l)) <= Len(declared[l])
       /\ \A i \in 1..Len(CreatesOn(l)) :
            CreatesOn(l)[i].class \in Range(declared[l])
  /\ op = "open_read_write" =>
       Len(AllOpens) <= Len(declared["read_write"])
  /\ op = "open_read_only" =>
       Len(AllOpens) <= Len(declared["read_only"]) + Len(declared["read_write"])

\* C20: every call of open_read_write and open_read_only comes to its end,
\* and on the way each declared class is instantiated and opened at most
\* once per pass, which bounds the opens of open_read_write by the size of
\* the read-write registry and those of open_read_only by the size of both.
C20_Terminates == []C20_Bounds /\ (InCall ~> Finished)

\* open_read_only finished after opening, without success, every declared
\* class of both loaders, two each.
C20_Witness ==
  /\ op = "open_read_only"
  /\ pc = "done"
  /\ Len(declared["read_only"]) = 2
  /\ Len(declared["read_write"]) = 2
  /\ Len(AllOpens) = 4

====
